---------------------------- MODULE Spec2Model ----------------------------
(***************************************************************************)
(* branchify: a list of (path, status) pairs is folded into a tree of      *)
(* files and directories (add_path_to_tree), the tree is rendered into a   *)
(* sequence of line fragments (format_tree_as_entries) and the fragments   *)
(* are written out as one string (generate_tree_from_paths).               *)
(*                                                                         *)
(* A Rust String is a sequence of Unicode code points (naturals), so that  *)
(* String's Ord is the lexicographic order of the sequences.  An Option    *)
(* is a sequence of length 0 (None) or 1 (Some(x)).  A Tree (a BTreeMap)   *)
(* is a function from names to Nodes; Tree::new() is the empty function    *)
(* << >>.  Paths are parsed as std::path does on a Unix build.             *)
(***************************************************************************)
EXTENDS Naturals, Sequences, FiniteSets, TLC

VARIABLES paths_with_status, compact, color, idx, root, entries, result, pc

vars == <<paths_with_status, compact, color, idx, root, entries, result, pc>>

-----------------------------------------------------------------------------
(* Bounds and input pools *)

\* the longest input list
MaxInputs == 2

\* code points of the characters the program itself names
Slash == 47
Newline == 10

\* "a/b", "a/c", "a", "a/b/c/f", "/", " ", "ab", "/b"
PathPool ==
    { <<97, 47, 98>>, <<97, 47, 99>>, <<97>>, <<97, 47, 98, 47, 99, 47, 102>>,
      <<47>>, <<32>>, <<97, 98>>, <<47, 98>> }

\* "", "M", "A"
StatusPool == { <<>>, <<77>>, <<65>> }

RECURSIVE SeqsUpTo(_, _)
SeqsUpTo(S, n) ==
    IF n = 0 THEN { <<>> }
    ELSE LET shorter == SeqsUpTo(S, n - 1)
         IN  shorter \cup { Append(q, x) : q \in shorter, x \in S }

-----------------------------------------------------------------------------
(* Strings *)

\* char::is_whitespace, the characters str::trim removes
WhiteSpace ==
    {9, 10, 11, 12, 13, 32, 133, 160, 5760, 8232, 8233, 8239, 8287, 12288}
        \cup (8192 .. 8202)

\* a variant of IsBlank: path_str.is_empty(), without the trim
IsEmptyUntrimmed(s) == s = <<>>

\* path_str.trim().is_empty()
IsBlank(s) == \A i \in 1 .. Len(s) : s[i] \in WhiteSpace

\* str::ends_with
EndsWith(s, suffix) ==
    /\ Len(s) >= Len(suffix)
    /\ SubSeq(s, Len(s) - Len(suffix) + 1, Len(s)) = suffix

\* String's Ord: lexicographic on code points, a proper prefix first
RECURSIVE StrLess(_, _)
StrLess(a, b) ==
    IF b = <<>> THEN FALSE
    ELSE IF a = <<>> THEN TRUE
    ELSE IF Head(a) # Head(b) THEN Head(a) < Head(b)
    ELSE StrLess(Tail(a), Tail(b))

\* the pieces of s between separators, empty pieces included
RECURSIVE SplitOn(_, _, _)
SplitOn(s, sep, cur) ==
    IF s = <<>> THEN <<cur>>
    ELSE IF Head(s) = sep THEN <<cur>> \o SplitOn(Tail(s), sep, <<>>)
    ELSE SplitOn(Tail(s), sep, Append(cur, Head(s)))

\* Path::components(), each component as its as_os_str(): the root directory
\* is "/", repeated separators and "." are dropped except a leading "." of a
\* relative path
Components(path) ==
    LET raw == SplitOn(path, Slash, <<>>)
        has_root == path # <<>> /\ path[1] = Slash
        kept == { i \in 1 .. Len(raw) :
                    /\ raw[i] # <<>>
                    /\ raw[i] = <<46>> => (i = 1 /\ ~has_root) }
        Pick[i \in 0 .. Len(raw)] ==
            IF i = 0 THEN <<>>
            ELSE IF i \in kept THEN Append(Pick[i - 1], raw[i])
            ELSE Pick[i - 1]
    IN  (IF has_root THEN << <<Slash>> >> ELSE <<>>) \o Pick[Len(raw)]

-----------------------------------------------------------------------------
(* Node and Tree *)

None == <<>>
Some(x) == <<x>>

new_file(status) == [status |-> status, children |-> None]

new_directory == [status |-> None, children |-> Some(<<>>)]

\* the filter_map of add_path_to_tree: the root marker and drive prefixes go
FilterComponent(name) == ~(name = <<Slash>> \/ EndsWith(name, <<58, 92>>))

PathComponents(path) == SelectSeq(Components(path), FilterComponent)

\* a variant of InsertFile: the final segment is entered as a directory
InsertDirectory(tree, name, status) ==
    IF name \in DOMAIN tree THEN tree
    ELSE (name :> new_directory) @@ tree

\* a variant of InsertFile: insert(name, Node::new_file(status)), which
\* replaces what is there
InsertFileOverwrite(tree, name, status) == (name :> new_file(status)) @@ tree

\* the final segment: entry(name).or_insert_with(|| Node::new_file(status))
InsertFile(tree, name, status) ==
    IF name \in DOMAIN tree THEN tree
    ELSE (name :> new_file(status)) @@ tree

\* a variant of EntryOrDirectory: insert(name, Node::new_directory()), which
\* replaces what is there
EntryAlwaysNewDirectory(tree, name) == new_directory

\* a non-final segment: entry(name).or_insert_with(Node::new_directory)
EntryOrDirectory(tree, name) ==
    IF name \in DOMAIN tree THEN tree[name] ELSE new_directory

\* a variant of AddComponents: a file met on the way down is replaced by a
\* directory and the walk goes on through it
RECURSIVE AddComponentsThroughFile(_, _, _)
AddComponentsThroughFile(current_tree, components, status) ==
    LET component_name == Head(components)
    IN  IF Len(components) = 1
        THEN InsertFile(current_tree, component_name, status)
        ELSE LET found == EntryOrDirectory(current_tree, component_name)
                 entry == IF found.children # None THEN found ELSE new_directory
             IN  (component_name :>
                     [entry EXCEPT !.children =
                         Some(AddComponentsThroughFile(entry.children[1],
                                  Tail(components), status))])
                 @@ current_tree

\* a variant of AddComponents: a file met on the way down is given children
\* and keeps its status
RECURSIVE AddComponentsGrowsFile(_, _, _)
AddComponentsGrowsFile(current_tree, components, status) ==
    LET component_name == Head(components)
    IN  IF Len(components) = 1
        THEN InsertFile(current_tree, component_name, status)
        ELSE LET found == EntryOrDirectory(current_tree, component_name)
                 sub == IF found.children # None THEN found.children[1] ELSE <<>>
             IN  (component_name :>
                     [found EXCEPT !.children =
                         Some(AddComponentsGrowsFile(sub, Tail(components),
                                                     status))])
                 @@ current_tree

\* a variant of AddComponents: a file met on the way down is replaced by an
\* empty directory before the walk breaks off
RECURSIVE AddComponentsClearsFile(_, _, _)
AddComponentsClearsFile(current_tree, components, status) ==
    LET component_name == Head(components)
    IN  IF Len(components) = 1
        THEN InsertFile(current_tree, component_name, status)
        ELSE LET entry == EntryOrDirectory(current_tree, component_name)
             IN  IF entry.children # None
                 THEN (component_name :>
                          [entry EXCEPT !.children =
                              Some(AddComponentsClearsFile(entry.children[1],
                                       Tail(components), status))])
                      @@ current_tree
                 ELSE (component_name :> new_directory) @@ current_tree

\* the loop over the components, from the current tree down
RECURSIVE AddComponents(_, _, _)
AddComponents(current_tree, components, status) ==
    LET component_name == Head(components)
    IN  IF Len(components) = 1
        THEN InsertFile(current_tree, component_name, status)
        ELSE LET entry == EntryOrDirectory(current_tree, component_name)
             IN  IF entry.children # None
                 THEN (component_name :>
                          [entry EXCEPT !.children =
                              Some(AddComponents(entry.children[1],
                                                 Tail(components), status))])
                      @@ current_tree
                 ELSE (component_name :> entry) @@ current_tree

add_path_to_tree(tree, path, status) ==
    LET components == PathComponents(path)
    IN  IF components = <<>> THEN tree
        ELSE AddComponents(tree, components, status)

-----------------------------------------------------------------------------
(* Rendering *)

\* "U+251C U+2500 U+2500 space" and "U+2514 U+2500 U+2500 space"
BranchGlyph == <<9500, 9472, 9472, 32>>
LastGlyph == <<9492, 9472, 9472, 32>>
\* "U+2502 space space space" and four spaces
BarIndent == <<9474, 32, 32, 32>>
BlankIndent == <<32, 32, 32, 32>>

Indent(s) == [kind |-> "Indent", s |-> s, status |-> None]
Connector(s) == [kind |-> "Connector", s |-> s, status |-> None]
Directory(s) == [kind |-> "Directory", s |-> s, status |-> None]
File(s, status) == [kind |-> "File", s |-> s, status |-> status]

\* BTreeMap::iter(): the keys in ascending order
RECURSIVE SortedSeq(_)
SortedSeq(S) ==
    IF S = {} THEN <<>>
    ELSE LET least == CHOOSE x \in S : \A y \in S \ {x} : StrLess(x, y)
         IN  <<least>> \o SortedSeq(S \ {least})

\* a variant of Iter: the keys in descending order
RECURSIVE ReverseSeq(_)
ReverseSeq(q) == IF q = <<>> THEN <<>> ELSE Append(ReverseSeq(Tail(q)), Head(q))

IterDescending(tree) == ReverseSeq(SortedSeq(DOMAIN tree))

Iter(tree) == SortedSeq(DOMAIN tree)

\* a variant of CompactChain: a sole child is joined whether it is a
\* directory or a file
RECURSIVE CompactChainFoldsFiles(_, _)
CompactChainFoldsFiles(compacted_name, node_to_print) ==
    LET stop == [name |-> compacted_name, node |-> node_to_print]
    IN  IF node_to_print.children = None THEN stop
        ELSE LET current_subtree == node_to_print.children[1]
             IN  IF Cardinality(DOMAIN current_subtree) # 1 THEN stop
                 ELSE LET child_name == CHOOSE k \in DOMAIN current_subtree : TRUE
                      IN  CompactChainFoldsFiles(
                              compacted_name \o <<Slash>> \o child_name,
                              current_subtree[child_name])

\* a variant of CompactChain: the walk stops after the first join
CompactChainOnce(compacted_name, node_to_print) ==
    LET stop == [name |-> compacted_name, node |-> node_to_print]
    IN  IF node_to_print.children = None THEN stop
        ELSE LET current_subtree == node_to_print.children[1]
             IN  IF Cardinality(DOMAIN current_subtree) # 1 THEN stop
                 ELSE LET child_name == CHOOSE k \in DOMAIN current_subtree : TRUE
                          child_node == current_subtree[child_name]
                      IN  IF child_node.children # None
                          THEN [name |-> compacted_name \o <<Slash>> \o child_name,
                                node |-> child_node]
                          ELSE stop

\* the chain walk under `if compact`: [name, node] of the line to print
RECURSIVE CompactChain(_, _)
CompactChain(compacted_name, node_to_print) ==
    LET stop == [name |-> compacted_name, node |-> node_to_print]
    IN  IF node_to_print.children = None THEN stop
        ELSE LET current_subtree == node_to_print.children[1]
             IN  IF Cardinality(DOMAIN current_subtree) # 1 THEN stop
                 ELSE LET child_name == Iter(current_subtree)[1]
                          child_node == current_subtree[child_name]
                      IN  IF child_node.children # None
                          THEN CompactChain(
                                   compacted_name \o <<Slash>> \o child_name,
                                   child_node)
                          ELSE stop

\* a variant of NewPrefix: the bar is drawn under a last entry and left out
\* under the others
NewPrefixSwapped(prefix, is_last) ==
    prefix \o (IF is_last THEN <<9474, 32, 32, 32>> ELSE <<32, 32, 32, 32>>)

\* iter.peek().is_none() chooses the connector and the children's prefix
ConnectorOf(is_last) == IF is_last THEN LastGlyph ELSE BranchGlyph

NewPrefix(prefix, is_last) ==
    prefix \o (IF is_last THEN BlankIndent ELSE BarIndent)

\* the label fragment of a line
LabelEntry(compacted_name, node_to_print) ==
    IF node_to_print.children # None
    THEN Directory(compacted_name)
    ELSE File(compacted_name, node_to_print.status)

\* a variant of NodeToPrint: with compact the label is the name of the last
\* directory of the chain alone
NodeToPrintLastName(name, node, compact_opt) ==
    IF compact_opt
    THEN LET names == SplitOn(CompactChain(name, node).name, Slash, <<>>)
         IN  [name |-> names[Len(names)], node |-> CompactChain(name, node).node]
    ELSE [name |-> name, node |-> node]

\* the line to print for the entry (name, node)
NodeToPrint(name, node, compact_opt) ==
    IF compact_opt THEN CompactChain(name, node)
    ELSE [name |-> name, node |-> node]

RECURSIVE format_tree_as_entries(_, _, _), FormatIter(_, _, _, _)
\* the body of `while let Some((name, node)) = iter.next()`, keys being what
\* the iterator has left
FormatIter(tree, keys, prefix, compact_opt) ==
    IF keys = <<>> THEN <<>>
    ELSE LET name == Head(keys)
             line == NodeToPrint(name, tree[name], compact_opt)
             is_last == Tail(keys) = <<>>
         IN  << Indent(prefix), Connector(ConnectorOf(is_last)),
                LabelEntry(line.name, line.node) >>
             \o (IF line.node.children # None
                 THEN format_tree_as_entries(line.node.children[1],
                          NewPrefix(prefix, is_last), compact_opt)
                 ELSE <<>>)
             \o FormatIter(tree, Tail(keys), prefix, compact_opt)

format_tree_as_entries(tree, prefix, compact_opt) ==
    FormatIter(tree, Iter(tree), prefix, compact_opt)

-----------------------------------------------------------------------------
(* Writing the fragments out *)

\* colored: a styled string is ESC [ codes m, the text, ESC [ 0 m
Styled(codes, s) == <<27, 91>> \o codes \o <<109>> \o s \o <<27, 91, 48, 109>>

\* s.normal(): no colour, no style, the text as it is
Normal(s) == s

\* a variant of apply_color: U is red without the bold
apply_color_plain_U(s, status) ==
    IF status = Some(<<77>>) THEN Styled(<<51, 51>>, s)
    ELSE IF status = Some(<<65>>) THEN Styled(<<51, 50>>, s)
    ELSE IF status = Some(<<68>>) THEN Styled(<<51, 49>>, s)
    ELSE IF status = Some(<<82>>) THEN Styled(<<51, 54>>, s)
    ELSE IF status = Some(<<67>>) THEN Styled(<<51, 53>>, s)
    ELSE IF status = Some(<<85>>) THEN Styled(<<51, 49>>, s)
    ELSE IF status = Some(<<63, 63>>) THEN Styled(<<57, 48>>, s)
    ELSE Normal(s)

apply_color(s, status) ==
    IF status = Some(<<77>>) THEN Styled(<<51, 51>>, s)             \* M yellow 33
    ELSE IF status = Some(<<65>>) THEN Styled(<<51, 50>>, s)        \* A green 32
    ELSE IF status = Some(<<68>>) THEN Styled(<<51, 49>>, s)        \* D red 31
    ELSE IF status = Some(<<82>>) THEN Styled(<<51, 54>>, s)        \* R cyan 36
    ELSE IF status = Some(<<67>>) THEN Styled(<<51, 53>>, s)        \* C magenta 35
    ELSE IF status = Some(<<85>>) THEN Styled(<<49, 59, 51, 49>>, s) \* U bold red 1;31
    ELSE IF status = Some(<<63, 63>>) THEN Styled(<<57, 48>>, s)    \* ?? bright black 90
    ELSE Normal(s)

\* a variant of WriteEntry: a directory label is written like a connector,
\* without the newline
WriteEntryNoDirNewline(entry, color_opt) ==
    IF entry.kind = "File"
    THEN (IF color_opt THEN apply_color(entry.s, entry.status)
          ELSE Normal(entry.s)) \o <<Newline>>
    ELSE IF entry.kind = "Directory"
    THEN (IF color_opt THEN Styled(<<51, 52>>, entry.s) ELSE entry.s)
    ELSE (IF color_opt THEN Styled(<<57, 48>>, entry.s) ELSE entry.s)

\* one arm of the match in generate_tree_from_paths: what write! appends
WriteEntry(entry, color_opt) ==
    IF entry.kind = "File"
    THEN (IF color_opt THEN apply_color(entry.s, entry.status)
          ELSE Normal(entry.s)) \o <<Newline>>
    ELSE IF entry.kind = "Directory"
    THEN (IF color_opt THEN Styled(<<51, 52>>, entry.s) ELSE entry.s)
         \o <<Newline>>
    ELSE (IF color_opt THEN Styled(<<57, 48>>, entry.s) ELSE entry.s)

RECURSIVE WriteEntries(_, _)
WriteEntries(es, color_opt) ==
    IF es = <<>> THEN <<>>
    ELSE WriteEntry(Head(es), color_opt) \o WriteEntries(Tail(es), color_opt)

\* Option<String> of a status string
StatusOpt(status) == IF status = <<>> THEN None ELSE Some(status)

\* the body of `for (path_str, status) in paths_with_status`
BuildStep(tree, pair) ==
    IF ~IsBlank(pair[1])
    THEN add_path_to_tree(tree, pair[1], StatusOpt(pair[2]))
    ELSE tree

\* the tree after the whole loop over pairs, starting from Tree::new()
RECURSIVE BuildTree(_)
BuildTree(pairs) ==
    IF pairs = <<>> THEN <<>>
    ELSE BuildStep(BuildTree(SubSeq(pairs, 1, Len(pairs) - 1)),
                   pairs[Len(pairs)])

-----------------------------------------------------------------------------
(* generate_tree_from_paths as a state machine *)

InitWith(pairs) ==
    /\ paths_with_status \in SeqsUpTo(pairs, MaxInputs)
    /\ compact \in BOOLEAN
    /\ color \in BOOLEAN
    /\ idx = 1
    /\ root = <<>>
    /\ entries = <<>>
    /\ result = <<>>
    /\ pc = "build"

Init == InitWith(PathPool \X StatusPool)

\* "a/b", "c"
ColorPathPool == { <<97, 47, 98>>, <<99>> }

\* "", "M", "A", "D", "R", "C", "U", "??", "X"
ColorStatusPool ==
    { <<>>, <<77>>, <<65>>, <<68>>, <<82>>, <<67>>, <<85>>, <<63, 63>>, <<88>> }

\* every path with every status, and a blank line
InitColor ==
    InitWith((ColorPathPool \X ColorStatusPool) \cup { << <<32>>, <<>> >> })

\* one turn of `for (path_str, status) in paths_with_status`, the path blank
SkipBlank ==
    /\ pc = "build"
    /\ idx <= Len(paths_with_status)
    /\ IsBlank(paths_with_status[idx][1])
    /\ idx' = idx + 1
    /\ UNCHANGED <<paths_with_status, compact, color, root, entries, result, pc>>

\* one turn of the loop, the path not blank
AddPath ==
    /\ pc = "build"
    /\ idx <= Len(paths_with_status)
    /\ ~IsBlank(paths_with_status[idx][1])
    /\ root' = BuildStep(root, paths_with_status[idx])
    /\ idx' = idx + 1
    /\ UNCHANGED <<paths_with_status, compact, color, entries, result, pc>>

\* let entries = format_tree_as_entries(&root, "", options.compact)
Format ==
    /\ pc = "build"
    /\ idx > Len(paths_with_status)
    /\ entries' = format_tree_as_entries(root, <<>>, compact)
    /\ pc' = "write"
    /\ UNCHANGED <<paths_with_status, compact, color, idx, root, result>>

\* `for entry in entries { write!(...) }` and the return of result
Write ==
    /\ pc = "write"
    /\ result' = WriteEntries(entries, color)
    /\ pc' = "done"
    /\ UNCHANGED <<paths_with_status, compact, color, idx, root, entries>>

Next == SkipBlank \/ AddPath \/ Format \/ Write

Spec == Init /\ [][Next]_vars

\* the same program on inputs that carry every status
SpecColor == InitColor /\ [][Next]_vars

-----------------------------------------------------------------------------
(* Reading a tree and a rendering *)

\* the node at a path of names
RECURSIVE HasPath(_, _), NodeAt(_, _), NodePaths(_)
HasPath(tree, p) ==
    /\ p # <<>>
    /\ Head(p) \in DOMAIN tree
    /\ Len(p) > 1 =>
          /\ tree[Head(p)].children # None
          /\ HasPath(tree[Head(p)].children[1], Tail(p))

NodeAt(tree, p) ==
    IF Len(p) = 1 THEN tree[Head(p)]
    ELSE NodeAt(tree[Head(p)].children[1], Tail(p))

\* every node of a tree, as its path of names from the root
NodePaths(tree) ==
    UNION { { <<k>> } \cup
            (IF tree[k].children = None THEN {}
             ELSE { <<k>> \o q : q \in NodePaths(tree[k].children[1]) })
            : k \in DOMAIN tree }

IsDir(node) == node.children # None

\* the children of the directory at path p, the root level for p = << >>
ChildrenAt(tree, p) == IF p = <<>> THEN tree ELSE NodeAt(tree, p).children[1]

\* the lines of a rendering: fragments 3i-2, 3i-1 and 3i make line i
NLines(es) == Len(es) \div 3
LineIndent(es, i) == es[3 * i - 2].s
LineConnector(es, i) == es[3 * i - 1].s
LineLabel(es, i) == es[3 * i]

\* the names joined in a label
LabelNames(es, i) == SplitOn(LineLabel(es, i).s, Slash, <<>>)

LineDepth(es, i) == Len(LineIndent(es, i)) \div 4

\* the line a line hangs under: the nearest line above it that is one
\* level less deep; 0 at the root level
LineParent(es, i) ==
    LET above == { j \in 1 .. i - 1 : LineDepth(es, j) = LineDepth(es, i) - 1 }
    IN  IF above = {} THEN 0 ELSE CHOOSE j \in above : \A k \in above : k <= j

\* the path of the last node a line stands for, and of the directory it
\* is listed in
RECURSIVE LinePath(_, _)
LinePath(es, i) ==
    (IF LineParent(es, i) = 0 THEN <<>> ELSE LinePath(es, LineParent(es, i)))
        \o LabelNames(es, i)

LineDir(es, i) ==
    IF LineParent(es, i) = 0 THEN <<>> ELSE LinePath(es, LineParent(es, i))

\* the name of the child a line was visited for
LineName(es, i) == LabelNames(es, i)[1]

\* the input in another order
Reorder(pairs, f) == [i \in 1 .. Len(pairs) |-> pairs[f[i]]]
Orderings(pairs) == { Reorder(pairs, f) : f \in Permutations(1 .. Len(pairs)) }

Built == pc \in {"write", "done"}

-----------------------------------------------------------------------------
(* C1 *)

SiblingsAscending(es) ==
    \A i, j \in 1 .. NLines(es) :
        (i < j /\ LineParent(es, i) = LineParent(es, j))
            => StrLess(LineName(es, i), LineName(es, j))

\* C1: in the rendering, with or without compaction, the lines of the
\* children of one directory (and of the root level) come in strictly
\* ascending order of child name, and so they do for the same input in any
\* other order.
C1_SortInvariant ==
    Built =>
        /\ SiblingsAscending(entries)
        /\ \A other \in Orderings(paths_with_status) :
              SiblingsAscending(
                  format_tree_as_entries(BuildTree(other), <<>>, compact))

\* "a/c" was inserted before "a/b" and "ab", and the rendering is done
C1_Witness ==
    /\ pc = "done"
    /\ Len(paths_with_status) = 2
    /\ paths_with_status[1][1] = <<97, 47, 99>>
    /\ paths_with_status[2][1] = <<97, 47, 98>>
    /\ NLines(entries) = 3
    /\ LineParent(entries, 2) = 1 /\ LineParent(entries, 3) = 1

-----------------------------------------------------------------------------
(* C2 *)

\* the segments of the paths that are inserted
Inserted(pairs) ==
    { PathComponents(pairs[i][1]) :
        i \in { k \in 1 .. Len(pairs) : ~IsBlank(pairs[k][1]) } } \ { <<>> }

IsProperPrefix(p, q) == Len(p) < Len(q) /\ SubSeq(q, 1, Len(p)) = p

\* no inserted path runs through the final segment of another
NoShapeCollision(pairs) ==
    \A p, q \in Inserted(pairs) : ~IsProperPrefix(p, q)

SameNames(t1, t2) ==
    /\ NodePaths(t1) = NodePaths(t2)
    /\ \A p \in NodePaths(t1) : IsDir(NodeAt(t1, p)) = IsDir(NodeAt(t2, p))

\* C2 as stated: whatever the order of the input, the built tree has the
\* same set of node paths.
C2_OrderInsensitive ==
    Built =>
        \A other \in Orderings(paths_with_status) :
            NodePaths(BuildTree(other)) = NodePaths(root)

\* C2 amended: when no inserted path is a proper prefix of another, the built
\* tree has the same node paths, each of the same shape, whatever the order
\* of the input.
C2_OrderInsensitiveNoCollision ==
    (Built /\ NoShapeCollision(paths_with_status)) =>
        \A other \in Orderings(paths_with_status) :
            SameNames(BuildTree(other), root)

\* two different paths sharing a directory were inserted
C2_Witness ==
    /\ pc = "done"
    /\ NoShapeCollision(paths_with_status)
    /\ Cardinality(Inserted(paths_with_status)) = 2
    /\ Cardinality(NodePaths(root)) >= 4

-----------------------------------------------------------------------------
(* C3 *)

SoleChildIsDir(node) ==
    /\ IsDir(node)
    /\ Cardinality(DOMAIN node.children[1]) = 1
    /\ \A k \in DOMAIN node.children[1] : IsDir(node.children[1][k])

\* the directories with two or more children or with a file as sole child
Branching(tree) ==
    { p \in NodePaths(tree) :
        /\ IsDir(NodeAt(tree, p))
        /\ DOMAIN NodeAt(tree, p).children[1] # {}
        /\ ~SoleChildIsDir(NodeAt(tree, p)) }

\* the node at p has a line of its own: it is the first name of a label
OwnLine(es, p) ==
    \E i \in 1 .. NLines(es) : LineDir(es, i) \o <<LineName(es, i)>> = p

\* the node at p is joined to its parent's label: a later name of a label
Folded(es, p) ==
    \E i \in 1 .. NLines(es) :
        \E m \in 2 .. Len(LabelNames(es, i)) :
            LineDir(es, i) \o SubSeq(LabelNames(es, i), 1, m) = p

\* the line of the node at p ends with it: it is the last name of a label
EndsLine(es, p) == \E i \in 1 .. NLines(es) : LinePath(es, i) = p

\* C3 as stated: with compact, a directory with two or more children, or
\* whose sole child is a file, is never joined to its parent's label and has
\* a line of its own.
C3_BranchingNeverFolded ==
    (Built /\ compact) =>
        \A p \in Branching(root) : OwnLine(entries, p) /\ ~Folded(entries, p)

\* C3 amended: with compact, a directory with two or more children, or whose
\* sole child is a file, ends the chain of its line: its name is the last of
\* the label and each of its children has a line of its own, none joined to
\* the label.
C3_BranchingEndsChain ==
    (Built /\ compact) =>
        \A p \in Branching(root) :
            /\ EndsLine(entries, p)
            /\ \A k \in DOMAIN NodeAt(root, p).children[1] :
                  /\ OwnLine(entries, Append(p, k))
                  /\ ~Folded(entries, Append(p, k))

\* a directory with a file as sole child is itself joined to its parent's
\* label
C3_Witness ==
    /\ pc = "done"
    /\ compact
    /\ \E p \in Branching(root) :
          /\ Len(p) >= 2
          /\ Folded(entries, p)
          /\ EndsLine(entries, p)

-----------------------------------------------------------------------------
(* C4 *)

\* the lines directly beneath line i
LinesBeneath(es, i) == { j \in 1 .. NLines(es) : LineParent(es, j) = i }

\* line i stands for a chain in the tree: each name but the last is a
\* directory whose sole child is the next name, a directory
IsChain(tree, es, i) ==
    LET d == LineDir(es, i)
        names == LabelNames(es, i)
    IN  /\ HasPath(tree, d \o names)
        /\ \A m \in 1 .. Len(names) - 1 :
              LET link == NodeAt(tree, d \o SubSeq(names, 1, m))
              IN  /\ SoleChildIsDir(link)
                  /\ DOMAIN link.children[1] = { names[m + 1] }

\* the chain of line i is maximal, its label is of the kind of the last
\* node and the lines beneath it are the children of the last node
EndsAtLast(tree, es, i) ==
    LET last == NodeAt(tree, LinePath(es, i))
    IN  /\ ~SoleChildIsDir(last)
        /\ LineLabel(es, i).kind = (IF IsDir(last) THEN "Directory" ELSE "File")
        /\ { LineName(es, j) : j \in LinesBeneath(es, i) }
               = (IF IsDir(last) THEN DOMAIN last.children[1] ELSE {})
        /\ Cardinality(LinesBeneath(es, i))
               = (IF IsDir(last) THEN Cardinality(DOMAIN last.children[1]) ELSE 0)

Labels(es) == [i \in 1 .. NLines(es) |-> LineLabel(es, i).s]
Depths(es) == [i \in 1 .. NLines(es) |-> LineDepth(es, i)]

\* C4: with compact, every line stands for a maximal chain of sole-child
\* directories, its label is the chain joined by "/" and the lines beneath it
\* are the children of the last directory; without compact no names are
\* joined and every node has its own line.  "a/b/c/f" alone renders "a/b/c"
\* and "f" with compact, and "a", "b", "c", "f" nested without.
C4_CompactionCorrect ==
    Built =>
        /\ \A i \in 1 .. NLines(entries) :
              /\ IsChain(root, entries, i)
              /\ EndsAtLast(root, entries, i) \/ ~compact
              /\ compact \/ Len(LabelNames(entries, i)) = 1
        /\ UNION { { LineDir(entries, i) \o SubSeq(LabelNames(entries, i), 1, m) :
                        m \in 1 .. Len(LabelNames(entries, i)) } :
                    i \in 1 .. NLines(entries) } = NodePaths(root)
        /\ ~compact =>
              /\ { LinePath(entries, i) : i \in 1 .. NLines(entries) }
                     = NodePaths(root)
              /\ NLines(entries) = Cardinality(NodePaths(root))
        /\ { PathComponents(paths_with_status[k][1]) :
                k \in 1 .. Len(paths_with_status) }
               = { << <<97>>, <<98>>, <<99>>, <<102>> >> } =>
              IF compact
              THEN /\ Labels(entries) = << <<97, 47, 98, 47, 99>>, <<102>> >>
                   /\ Depths(entries) = <<0, 1>>
              ELSE /\ Labels(entries) = << <<97>>, <<98>>, <<99>>, <<102>> >>
                   /\ Depths(entries) = <<0, 1, 2, 3>>

\* "a/b/c/f" alone, rendered with compact as "a/b/c" over "f"
C4_Witness ==
    /\ pc = "done"
    /\ compact
    /\ Len(paths_with_status) = 1
    /\ NLines(entries) = 2
    /\ Len(LabelNames(entries, 1)) = 3
    /\ LineLabel(entries, 1).kind = "Directory"
    /\ LineLabel(entries, 2).kind = "File"

-----------------------------------------------------------------------------
(* C5 *)

\* a proper prefix of the segments names a file of the tree
RunsThroughFile(tree, components) ==
    \E m \in 1 .. Len(components) - 1 :
        /\ HasPath(tree, SubSeq(components, 1, m))
        /\ ~IsDir(NodeAt(tree, SubSeq(components, 1, m)))

\* the loop is about to insert the path of input idx
Inserting ==
    /\ pc = "build"
    /\ idx <= Len(paths_with_status)
    /\ ~IsBlank(paths_with_status[idx][1])

NextComponents == PathComponents(paths_with_status[idx][1])

\* the segments of the path the loop has just been through
LastComponents == PathComponents(paths_with_status[idx - 1][1])

\* C5: inserting a path one of whose non-final segments names an existing
\* file leaves the whole tree as it was, and the run goes on.
C5_ThroughFileNoOp ==
    [][(Inserting /\ RunsThroughFile(root, NextComponents))
          => (root' = root /\ idx' = idx + 1 /\ pc' = "build")]_vars

\* "a/b/c/f" has just been through the loop while "a/b" was a file
C5_Witness ==
    /\ pc = "build"
    /\ idx = 3
    /\ ~IsBlank(paths_with_status[2][1])
    /\ Len(LastComponents) = 4
    /\ RunsThroughFile(root, LastComponents)
    /\ NodePaths(root) = { << <<97>> >>, << <<97>>, <<98>> >> }

-----------------------------------------------------------------------------
(* C6 *)

\* the first input, among those the loop has been through, inserted with
\* the segments p; 0 when there is none
FirstInsertion(p) ==
    LET with == { k \in 1 .. idx - 1 :
                    /\ ~IsBlank(paths_with_status[k][1])
                    /\ PathComponents(paths_with_status[k][1]) = p }
    IN  IF with = {} THEN 0 ELSE CHOOSE k \in with : \A m \in with : k <= m

FirstStatusKept ==
    \A p \in NodePaths(root) :
        ~IsDir(NodeAt(root, p)) =>
            /\ FirstInsertion(p) # 0
            /\ NodeAt(root, p).status
                  = StatusOpt(paths_with_status[FirstInsertion(p)][2])

\* C6: when the final segment of an inserted path names a node that is
\* already there, file or directory, the tree stays as it was and the new
\* status is dropped; at any time a file carries the status of the first
\* insertion of its path.
C6_FirstWriterWins ==
    /\ [][(Inserting /\ HasPath(root, NextComponents)) => root' = root]_vars
    /\ []FirstStatusKept

\* the same path has been inserted twice with two statuses, or a file's
\* path over a directory of that name
C6_Witness ==
    /\ pc = "build"
    /\ idx = 3
    /\ ~IsBlank(paths_with_status[1][1])
    /\ ~IsBlank(paths_with_status[2][1])
    /\ LastComponents = PathComponents(paths_with_status[1][1])
    /\ LastComponents # <<>>
    /\ paths_with_status[1][2] = <<77>>
    /\ paths_with_status[2][2] = <<65>>
    /\ NodeAt(root, LastComponents).status = Some(<<77>>)

-----------------------------------------------------------------------------
(* C7 *)

\* C7: on every tree the insertions reach, inserting a (path, status) pair
\* twice in a row gives the tree that inserting it once gives.  (Every tree
\* the loop reaches is the root of a state of the loop: pc = "build".)
C7_Idempotent ==
    pc = "build" =>
        \A path \in PathPool, status \in StatusPool :
            LET once == add_path_to_tree(root, path, StatusOpt(status))
            IN  add_path_to_tree(once, path, StatusOpt(status)) = once

\* a tree with nodes, on which an insertion adds a node and another runs
\* into a file
C7_Witness ==
    /\ pc = "build"
    /\ root # <<>>
    /\ \E path \in PathPool :
          add_path_to_tree(root, path, None) # root
    /\ \E path \in PathPool :
          RunsThroughFile(root, PathComponents(path))

-----------------------------------------------------------------------------
(* C8 *)

\* line i is the last of the children of its directory in the tree
IsLastSibling(tree, es, i) ==
    \A k \in DOMAIN ChildrenAt(tree, LineDir(es, i)) :
        k = LineName(es, i) \/ StrLess(k, LineName(es, i))

\* C8: a line's connector is "U+2514 U+2500 U+2500 space" exactly when it is
\* the last of its siblings in sorted order and "U+251C U+2500 U+2500 space"
\* otherwise; the indent of a line beneath a directory line is that line's
\* indent and then four spaces when the directory line was the last of its
\* siblings, "U+2502 space space space" when it was not; the root level has
\* no indent.  "a/b", "a/c" without compact and colour is written as the
\* three lines of the specification.
C8_ConnectorAndIndent ==
    Built =>
        /\ \A i \in 1 .. NLines(entries) :
              /\ HasPath(root, LinePath(entries, i))
              /\ LineConnector(entries, i) =
                    (IF IsLastSibling(root, entries, i)
                     THEN <<9492, 9472, 9472, 32>>
                     ELSE <<9500, 9472, 9472, 32>>)
              /\ IsLastSibling(root, entries, i)
                    = (\A j \in i + 1 .. NLines(entries) :
                          LineParent(entries, j) # LineParent(entries, i))
              /\ LineIndent(entries, i) =
                    (IF LineParent(entries, i) = 0 THEN <<>>
                     ELSE LineIndent(entries, LineParent(entries, i)) \o
                          (IF LineConnector(entries, LineParent(entries, i))
                                = <<9492, 9472, 9472, 32>>
                           THEN <<32, 32, 32, 32>>
                           ELSE <<9474, 32, 32, 32>>))
              /\ LineParent(entries, i) # 0 =>
                    LineLabel(entries, LineParent(entries, i)).kind = "Directory"
        /\ ( /\ pc = "done" /\ ~compact /\ ~color
             /\ Len(paths_with_status) = 2
             /\ paths_with_status[1][1] = <<97, 47, 98>>
             /\ paths_with_status[2][1] = <<97, 47, 99>> ) =>
              result = <<9492, 9472, 9472, 32, 97, 10,
                         32, 32, 32, 32, 9500, 9472, 9472, 32, 98, 10,
                         32, 32, 32, 32, 9492, 9472, 9472, 32, 99, 10>>

\* a directory line that is not the last of its siblings, with a line
\* beneath it, and a last line
C8_Witness ==
    /\ pc = "done"
    /\ \E i, j \in 1 .. NLines(entries) :
          /\ LineParent(entries, j) = i
          /\ LineConnector(entries, i) = BranchGlyph
          /\ LineIndent(entries, j) = BarIndent
    /\ \E j \in 1 .. NLines(entries) :
          /\ LineParent(entries, j) # 0
          /\ LineConnector(entries, LineParent(entries, j)) = LastGlyph

-----------------------------------------------------------------------------
(* C9 *)

\* the table of the specification: the SGR codes of a status, << >> for none
StyleOfStatus(status) ==
    CASE status = Some(<<77>>) -> <<51, 51>>            \* M yellow
      [] status = Some(<<65>>) -> <<51, 50>>            \* A green
      [] status = Some(<<68>>) -> <<51, 49>>            \* D red
      [] status = Some(<<82>>) -> <<51, 54>>            \* R cyan
      [] status = Some(<<67>>) -> <<51, 53>>            \* C magenta
      [] status = Some(<<85>>) -> <<49, 59, 51, 49>>    \* U bold red
      [] status = Some(<<63, 63>>) -> <<57, 48>>        \* ?? bright black
      [] OTHER -> <<>>

Wrapped(codes, s) == <<27, 91>> \o codes \o <<109>> \o s \o <<27, 91, 48, 109>>

\* what the specification has a fragment written as when colour is on
Expected(entry) ==
    CASE entry.kind = "File" ->
           (IF StyleOfStatus(entry.status) = <<>> THEN entry.s
            ELSE Wrapped(StyleOfStatus(entry.status), entry.s)) \o <<10>>
      [] entry.kind = "Directory" -> Wrapped(<<51, 52>>, entry.s) \o <<10>>
      [] OTHER -> Wrapped(<<57, 48>>, entry.s)

RECURSIVE ExpectedAll(_)
ExpectedAll(es) ==
    IF es = <<>> THEN <<>> ELSE Expected(Head(es)) \o ExpectedAll(Tail(es))

\* the statuses of the rendered files
FileStatuses(es) ==
    { es[i].status : i \in { k \in 1 .. Len(es) : es[k].kind = "File" } }

-----------------------------------------------------------------------------
(* C10 *)

\* a string of white space only, the empty string included
WhitespaceOnly(s) == { s[i] : i \in 1 .. Len(s) } \subseteq WhiteSpace

\* a path of separators only, such as "/"
NoSegments(s) == { s[i] : i \in 1 .. Len(s) } \subseteq { Slash }

\* no path of the input is inserted: each is blank or has no segments
NothingInserted(pairs) ==
    \A k \in 1 .. Len(pairs) :
        WhitespaceOnly(pairs[k][1]) \/ NoSegments(pairs[k][1])

\* C10: the output is empty when the input is empty or every path is blank
\* or has no segments; when an entry is rendered the output is not empty and
\* ends with a newline.
C10_EmptyAndTrailingNewline ==
    pc = "done" =>
        /\ NothingInserted(paths_with_status) => result = <<>>
        /\ entries # <<>> => (result # <<>> /\ result[Len(result)] = 10)

\* "/" and " " were the whole input and the output is empty
C10_Witness ==
    /\ pc = "done"
    /\ Len(paths_with_status) = 2
    /\ paths_with_status[1][1] = <<47>>
    /\ paths_with_status[2][1] = <<32>>
    /\ result = <<>>

-----------------------------------------------------------------------------
(* C11 *)

\* the fragments come in threes: an Indent, a Connector, a label
TripleShape(es) ==
    /\ Len(es) % 3 = 0
    /\ \A i \in 1 .. Len(es) :
          es[i].kind \in (CASE i % 3 = 1 -> { "Indent" }
                          [] i % 3 = 2 -> { "Connector" }
                          [] OTHER -> { "File", "Directory" })

\* the text of a fragment as it is written: the colour codes around it when
\* colour is on and the label is styled
Shown(entry) ==
    IF color THEN SubSeq(Expected(entry), 1,
                         Len(Expected(entry))
                            - (IF entry.kind \in { "File", "Directory" }
                               THEN 1 ELSE 0))
    ELSE entry.s

\* the output as lines: indent, connector, label, newline for each triple
RECURSIVE LinesOf(_)
LinesOf(es) ==
    IF Len(es) < 3 THEN <<>>
    ELSE Shown(es[1]) \o Shown(es[2]) \o Shown(es[3]) \o <<10>>
         \o LinesOf(SubSeq(es, 4, Len(es)))

\* the number of newlines of a string
NewlineCount(s) == Cardinality({ i \in 1 .. Len(s) : s[i] = 10 })

\* C11: the fragments of a rendering, with or without compact, are triples
\* of an Indent, a Connector and a Directory or File label in that order;
\* the output has a newline after each label and nowhere else, so that it is
\* one line indent + connector + label + newline for each triple.
C11_TriplesAndLines ==
    /\ Built => TripleShape(entries)
    /\ pc = "done" =>
          /\ result = LinesOf(entries)
          /\ NewlineCount(result) = NLines(entries)

\* a rendering of a directory line and two file lines, written out
C11_Witness ==
    /\ pc = "done"
    /\ NLines(entries) = 3
    /\ \E i \in 1 .. 3 : LineLabel(entries, i).kind = "Directory"
    /\ \E i \in 1 .. 3 : LineLabel(entries, i).kind = "File"
    /\ NewlineCount(result) = 3

-----------------------------------------------------------------------------
(* C12 *)

\* the directories of a tree
DirPaths(tree) == { p \in NodePaths(tree) : IsDir(NodeAt(tree, p)) }

\* C12: at any time of the build every directory of the tree has at least
\* one child, and the last line of a rendering that is not empty is a file
\* line.
C12_NoEmptyDirectory ==
    /\ \A p \in DirPaths(root) : DOMAIN NodeAt(root, p).children[1] # {}
    /\ (Built /\ entries # <<>>) => entries[Len(entries)].kind = "File"

\* a tree with a directory, rendered, after an insertion that broke off at
\* a file of that directory
C12_Witness ==
    /\ pc = "done"
    /\ DirPaths(root) # {}
    /\ \E k \in 1 .. Len(paths_with_status) :
          /\ ~IsBlank(paths_with_status[k][1])
          /\ RunsThroughFile(root, PathComponents(paths_with_status[k][1]))
    /\ entries # <<>>

-----------------------------------------------------------------------------
(* C13 *)

\* a node with children has no status
OneShape(tree) ==
    \A p \in NodePaths(tree) :
        IsDir(NodeAt(tree, p)) => NodeAt(tree, p).status = None

\* every node of before is a node of after, of the same shape
ShapesKept(before, after) ==
    \A p \in NodePaths(before) :
        /\ HasPath(after, p)
        /\ IsDir(NodeAt(after, p)) = IsDir(NodeAt(before, p))

\* C13: at any time every node is a file or a directory, a node with
\* children having no status, and no step turns a file into a directory or
\* a directory into a file.
C13_ShapeForever ==
    /\ []OneShape(root)
    /\ [][ShapesKept(root, root')]_vars

\* a file with a status stands where a later path has tried to go through
\* it
C13_Witness ==
    /\ pc = "build"
    /\ idx = 3
    /\ ~IsBlank(paths_with_status[2][1])
    /\ RunsThroughFile(root, LastComponents)
    /\ \E m \in 1 .. Len(LastComponents) - 1 :
          /\ HasPath(root, SubSeq(LastComponents, 1, m))
          /\ NodeAt(root, SubSeq(LastComponents, 1, m)).status # None

-----------------------------------------------------------------------------
(* C14 *)

\* the File fragments of a rendering, in order
FileFragments(es) == SelectSeq(es, LAMBDA e : e.kind = "File")

\* the lines of the files of a rendering, in order
RECURSIVE FileLinesUpTo(_, _)
FileLinesUpTo(es, n) ==
    IF n = 0 THEN <<>>
    ELSE FileLinesUpTo(es, n - 1)
         \o (IF LineLabel(es, n).kind = "File" THEN <<n>> ELSE <<>>)

\* the full path of each file, from the labels of the lines above it
FilePaths(es) ==
    LET lines == FileLinesUpTo(es, NLines(es))
    IN  [k \in 1 .. Len(lines) |-> LinePath(es, lines[k])]

\* the directories of the tree that are the only child of a directory
SoleChildDirs(tree) ==
    { p \in DirPaths(tree) :
        /\ Len(p) >= 2
        /\ SoleChildIsDir(NodeAt(tree, SubSeq(p, 1, Len(p) - 1))) }

\* the other rendering of the tree: without compact when entries is with
Other == format_tree_as_entries(root, <<>>, ~compact)

Compacted == IF compact THEN entries ELSE Other
Uncompacted == IF compact THEN Other ELSE entries

\* C14: the renderings of a tree with and without compact have the same
\* File fragments in the same order and give each file the same full path;
\* the one with compact has one line fewer for each directory joined to its
\* parent's label.
C14_CompactionKeepsFiles ==
    Built =>
        /\ FileFragments(Compacted) = FileFragments(Uncompacted)
        /\ FilePaths(Compacted) = FilePaths(Uncompacted)
        /\ NLines(Compacted) + Cardinality(SoleChildDirs(root))
              = NLines(Uncompacted)
        /\ \A p \in DirPaths(root) :
              Folded(Compacted, p) = (p \in SoleChildDirs(root))

\* a rendering with compact in which two directories are joined to a label
\* and a file with a status lies beneath
C14_Witness ==
    /\ pc = "done"
    /\ compact
    /\ Cardinality(SoleChildDirs(root)) = 2
    /\ NLines(entries) + 2 = NLines(Other)
    /\ \E i \in 1 .. Len(entries) :
          entries[i].kind = "File" /\ entries[i].status # None

====
